---------------------------- MODULE Spec2Model ----------------------------
(***************************************************************************)
(* Model of the polling-mode USART driver STM32F030-CMSIS-USART-lib.c      *)
(* (USART_init, USART_putc, USART_puts, USART_puti, USART_getc,            *)
(* USART_puth, USART_pollc, USART_gets).                                   *)
(*                                                                         *)
(* Each library routine is modelled as the sequence of steps of its C      *)
(* body.  The USART peripheral appears as its flags TXE, TC, RXNE and its  *)
(* data registers TDR and RDR, which the hardware changes on its own       *)
(* (Hw... actions).  There is one specification per routine; each starts   *)
(* at the routine's entry with arguments drawn from bounded sets.          *)
(*                                                                         *)
(* Integers are uint32_t / uint8_t as in the source: arithmetic that can   *)
(* leave the range is reduced modulo 2^32 or 2^8.                          *)
(***************************************************************************)
EXTENDS Integers, Sequences, FiniteSets, TLC

\* ------------------------------------------------------------------ bounds
\* Largest number of bytes USART_getc delivers during one USART_gets call.
MaxInput == 5
\* Largest buffer capacity (strLen) passed to USART_gets.
MaxCap == 3
\* Largest number of bytes requested for transmission through USART_putc.
MaxTx == 3
\* Largest number of USART_pollc calls in one behaviour.
MaxPolls == 2

\* ------------------------------------------------------- integer helpers
\* The model checker's integers are narrower than uint32_t, so a uint32_t
\* that can exceed 2^31 - 1 is kept as the pair <<high half, low half>> of
\* its 16-bit halves, and the C operators are computed on the halves.
Pow2(n) == 2 ^ n

Half == Pow2(16)

\* uint8_t / char truncation
U8(n) == n % 256

\* the uint32_t with value n, for 0 <= n < 2^31
U32(n) == <<n \div Half, n % Half>>

\* (uint32_t) n for a 32-bit int n (two's complement for n < 0)
U32OfInt(n) ==
  IF n >= 0 THEN U32(n)
  ELSE LET m == (n + 2147483647) + 1      \* n + 2^31, in 0..2^31-1
       IN  <<Pow2(15) + (m \div Half), m % Half>>

\* a - 1 on uint32_t: 0 - 1 wraps to 0xFFFFFFFF
U32Dec(a) ==
  IF a[2] > 0 THEN <<a[1], a[2] - 1>>
  ELSE IF a[1] > 0 THEN <<a[1] - 1, Half - 1>>
  ELSE <<Half - 1, Half - 1>>

\* -a on uint32_t (two's complement)
U32Neg(a) ==
  IF a[2] # 0 THEN <<(Half - 1) - a[1], Half - a[2]>>
  ELSE <<(Half - a[1]) % Half, 0>>

\* a < b on uint32_t
U32Less(a, b) == a[1] < b[1] \/ (a[1] = b[1] /\ a[2] < b[2])

\* a >> n on uint32_t, for 0 <= n <= 31
U32Shr(a, n) ==
  IF n >= 16 THEN <<0, a[1] \div Pow2(n - 16)>>
  ELSE <<a[1] \div Pow2(n),
         (a[2] \div Pow2(n)) + (a[1] % Pow2(n)) * Pow2(16 - n)>>

\* a / d on uint32_t, for a small divisor d
U32Div(a, d) ==
  <<a[1] \div d, ((a[1] % d) * Half + a[2]) \div d>>

\* a % d on uint32_t, for a small divisor d
U32Mod(a, d) == ((a[1] % d) * Half + a[2]) % d

RECURSIVE BitOr(_, _)
\* a | b on unsigned integers
BitOr(a, b) ==
  IF a = 0 THEN b
  ELSE IF b = 0 THEN a
  ELSE (IF (a % 2 = 1) \/ (b % 2 = 1) THEN 1 ELSE 0)
       + 2 * BitOr(a \div 2, b \div 2)

\* the n-bit field of register value r that starts at bit position pos
Field(r, pos, n) == (r \div Pow2(pos)) % Pow2(n)

\* register value r with the n-bit field at pos cleared
WithoutField(r, pos, n) == r - Field(r, pos, n) * Pow2(pos)

Last(s) == s[Len(s)]

Front(s) == SubSeq(s, 1, Len(s) - 1)

\* all sequences over S of length 0..n
SeqsUpTo(S, n) == UNION {[1..k -> S] : k \in 0..n}

\* ---------------------------------------------------------------- state
VARIABLES
  pc,          \* position of the single thread of execution
  txLine,      \* bytes that have been completely shifted out on the Tx pin
  \* --- USART transmitter (hardware)
  TXE,         \* ISR.TXE: transmit data register empty
  TC,          \* ISR.TC: transmission complete
  TDR,         \* <<b>> while TDR holds byte b not yet moved to the shifter
  shiftReg,    \* <<b>> while byte b is being shifted out, <<>> when idle
  \* --- USART receiver (hardware)
  RXNE,        \* ISR.RXNE: receive data register not empty
  RDR,         \* receive data register content
  \* --- USART_putc / USART_puts
  c,           \* argument of the running USART_putc
  s,           \* rest of the string of the running USART_puts
  ret,         \* where the running USART_putc returns to
  requested,   \* bytes handed to USART_putc so far
  tdrWrites,   \* writes to TDR by the running USART_putc
  overwritten, \* a TDR write hit a byte that had not reached the shifter
  \* --- USART_pollc
  pollResult,  \* return value of the last USART_pollc
  sawRXNE,     \* outcome of the RXNE test of the running USART_pollc
  pending,     \* <<b>> if byte b was in RDR at the RXNE test, else <<>>
  rdrReads,    \* reads of RDR by the running USART_pollc
  polls,       \* USART_pollc calls so far
  \* --- USART_gets
  inStr,       \* memory starting at the caller's buffer
  strLen,      \* capacity argument
  strPos,      \* position in string
  oneChar,     \* currently entered character
  rxConsumed,  \* bytes returned by USART_getc during this call
  retval,      \* value returned by USART_gets
  oobWrite,    \* a write went to an index >= strLen
  \* --- USART_puth
  number, places, oob, x,
  \* --- USART_puti
  data, base, myString, overflow,
  \* --- USART_init
  baudrate, speedMant, speedFrac,
  AHBENR, APB2ENR, MODER, AFR0, BRR, CR1,
  priorMODER, priorAFR0,  \* register contents at entry
  step,        \* index of the next register write of USART_init
  writeLog     \* registers written by this call, in order

txHw == <<TXE, TC, TDR, shiftReg>>
rxHw == <<RXNE, RDR>>
putcVars == <<c, s, ret, requested, tdrWrites, overwritten>>
pollcVars == <<pollResult, sawRXNE, pending, rdrReads, polls>>
getsVars == <<inStr, strLen, strPos, oneChar, rxConsumed, retval, oobWrite>>
puthVars == <<number, places, oob, x>>
putiVars == <<data, base, myString, overflow>>
initVars == <<baudrate, speedMant, speedFrac, AHBENR, APB2ENR, MODER, AFR0,
              BRR, CR1, priorMODER, priorAFR0, step, writeLog>>

vars == <<pc, txLine, txHw, rxHw, putcVars, pollcVars, getsVars, puthVars,
          putiVars, initVars>>

\* ------------------------------------------- state of the unused routines
TxHwIdle ==
  /\ TXE = TRUE /\ TC = TRUE /\ TDR = <<>> /\ shiftReg = <<>>

RxHwIdle ==
  /\ RXNE = FALSE /\ RDR = 0

PutcUnused ==
  /\ c = 0 /\ s = <<>> /\ ret = "idle" /\ requested = <<>> /\ tdrWrites = 0
  /\ overwritten = FALSE

PollcUnused ==
  /\ pollResult = 0 /\ sawRXNE = FALSE /\ pending = <<>> /\ rdrReads = 0
  /\ polls = 0

GetsUnused ==
  /\ inStr = <<>> /\ strLen = 0 /\ strPos = 0 /\ oneChar = 0
  /\ rxConsumed = <<>> /\ retval = 0 /\ oobWrite = FALSE

PuthUnused ==
  /\ number = U32(0) /\ places = 0 /\ oob = U32(0) /\ x = 0

PutiUnused ==
  /\ data = 0 /\ base = 0 /\ myString = <<>> /\ overflow = FALSE

InitUnused ==
  /\ baudrate = 0 /\ speedMant = 0 /\ speedFrac = 0
  /\ AHBENR = 0 /\ APB2ENR = 0 /\ MODER = 0 /\ AFR0 = 0 /\ BRR = 0 /\ CR1 = 0
  /\ priorMODER = 0 /\ priorAFR0 = 0 /\ step = 0 /\ writeLog = <<>>

\* ------------------------------------------------------------ USART_putc
\* Effect of one complete USART_putc( ch ) call on an idle transmitter: the
\* call returns when ch has been shifted out (see the step-level actions
\* USART_putc_... below, which are used where the flags matter).
USART_putc(line, ch) == Append(line, U8(ch))

\* ------------------------------------------------------------ USART_gets
\* Bytes USART_getc may deliver: <Enter>, delete, a control byte, the first
\* and last printable bytes, a letter, and a byte above ASCII.
RxBytes == {13, 127, 31, 32, 65, 126, 128}

\* Content of the caller's memory before the call.
PriorBytes == {0, 255}

GetsPcs == {"gets_entry", "gets_getc", "gets_while", "gets_ret"}

\* the printable test with the upper limit 0x7F
IsPrintable_Upto7F(ch) == ch >= 32 /\ ch <= 127

\* oneChar >= 0x20 && oneChar <= 0x7E
IsPrintable(ch) == ch >= 32 /\ ch <= 126

\* the room test without the "- 1"
HasRoom_OffByOne(pos, len) == U32Less(U32(pos), U32(len))

\* strPos < ( strLen - 1 ), both uint32_t
HasRoom(pos, len) == U32Less(U32(pos), U32Dec(U32(len)))

\* oneChar == 127 && strPos > 0
IsBackspace(ch, pos) == ch = 127 /\ pos > 0

InitGets ==
  /\ pc = "gets_entry"
  /\ txLine = <<>>
  /\ TxHwIdle /\ RxHwIdle /\ PutcUnused /\ PollcUnused
  /\ PuthUnused /\ PutiUnused /\ InitUnused
  /\ strLen \in 0..MaxCap
  /\ \E fill \in PriorBytes : inStr = [i \in 0..MaxInput |-> fill]
  /\ strPos = 0 /\ oneChar = 0 /\ rxConsumed = <<>> /\ retval = 0
  /\ oobWrite = FALSE

\* uint32_t strPos = 0;
USART_gets_entry ==
  /\ pc = "gets_entry"
  /\ strPos' = 0
  /\ pc' = "gets_getc"
  /\ UNCHANGED <<txLine, txHw, rxHw, putcVars, pollcVars, puthVars, putiVars,
                 initVars, inStr, strLen, oneChar, rxConsumed, retval,
                 oobWrite>>

\* oneChar = USART_getc();  blocks until the receiver holds a byte
USART_gets_getc ==
  /\ pc = "gets_getc"
  /\ Len(rxConsumed) < MaxInput
  /\ \E b \in RxBytes :
       /\ oneChar' = U8(b)
       /\ rxConsumed' = Append(rxConsumed, b)
  /\ pc' = "gets_while"
  /\ UNCHANGED <<txLine, txHw, rxHw, putcVars, pollcVars, puthVars, putiVars,
                 initVars, inStr, strLen, strPos, retval, oobWrite>>

\* printable character and not at end of the string: store and echo
USART_gets_store ==
  /\ pc = "gets_while"
  /\ oneChar # 13
  /\ IsPrintable(oneChar) /\ HasRoom(strPos, strLen)
  /\ inStr' = [inStr EXCEPT ![strPos] = oneChar]
  /\ oobWrite' = (oobWrite \/ strPos >= strLen)
  /\ strPos' = strPos + 1
  /\ txLine' = USART_putc(txLine, oneChar)
  /\ pc' = "gets_getc"
  /\ UNCHANGED <<txHw, rxHw, putcVars, pollcVars, puthVars, putiVars,
                 initVars, strLen, oneChar, rxConsumed, retval>>

\* backspace key: echo and drop the previous character
USART_gets_backspace ==
  /\ pc = "gets_while"
  /\ oneChar # 13
  /\ ~(IsPrintable(oneChar) /\ HasRoom(strPos, strLen))
  /\ IsBackspace(oneChar, strPos)
  /\ txLine' = USART_putc(txLine, oneChar)
  /\ strPos' = strPos - 1
  /\ pc' = "gets_getc"
  /\ UNCHANGED <<txHw, rxHw, putcVars, pollcVars, puthVars, putiVars,
                 initVars, inStr, strLen, oneChar, rxConsumed, retval,
                 oobWrite>>

\* any other character: nothing happens
USART_gets_ignore ==
  /\ pc = "gets_while"
  /\ oneChar # 13
  /\ ~(IsPrintable(oneChar) /\ HasRoom(strPos, strLen))
  /\ ~IsBackspace(oneChar, strPos)
  /\ pc' = "gets_getc"
  /\ UNCHANGED <<txLine, txHw, rxHw, putcVars, pollcVars, puthVars, putiVars,
                 initVars, getsVars>>

\* <Enter>: inStr[ strPos ] = 0x00; return strPos;
USART_gets_return ==
  /\ pc = "gets_while"
  /\ oneChar = 13
  /\ inStr' = [inStr EXCEPT ![strPos] = 0]
  /\ oobWrite' = (oobWrite \/ strPos >= strLen)
  /\ retval' = strPos
  /\ pc' = "gets_ret"
  /\ UNCHANGED <<txLine, txHw, rxHw, putcVars, pollcVars, puthVars, putiVars,
                 initVars, strLen, strPos, oneChar, rxConsumed>>

NextGets ==
  \/ USART_gets_entry
  \/ USART_gets_getc
  \/ USART_gets_store
  \/ USART_gets_backspace
  \/ USART_gets_ignore
  \/ USART_gets_return

SpecGets == InitGets /\ [][NextGets]_vars

\* ------------------------------------------- properties of USART_gets
RECURSIVE LineEditor(_, _)
\* Reference one-line editor: the text and the echo after the bytes of input
\* have been typed into a line of the given capacity (terminator included).
LineEditor(input, capacity) ==
  IF input = <<>> THEN [text |-> <<>>, echo |-> <<>>]
  ELSE LET before == LineEditor(Front(input), capacity)
           b == Last(input)
       IN  IF b \in 32..126 /\ Len(before.text) + 2 <= capacity
           THEN [text |-> Append(before.text, b),
                 echo |-> Append(before.echo, b)]
           ELSE IF b = 127 /\ before.text # <<>>
           THEN [text |-> Front(before.text),
                 echo |-> Append(before.echo, b)]
           ELSE before

\* C1: for every capacity >= 1, throughout USART_gets the stored length stays
\* within 0..capacity-1, every write into the buffer (characters and the
\* terminator) is at an index < capacity, and while length = capacity-1 a
\* printable byte is neither stored nor echoed.
C1_GetsStaysInBuffer ==
  /\ [](strLen >= 1 /\ pc \in GetsPcs =>
          /\ 0 <= strPos /\ strPos <= strLen - 1
          /\ ~oobWrite)
  /\ [][(/\ strLen >= 1 /\ pc = "gets_while"
         /\ strPos = strLen - 1 /\ IsPrintable(oneChar))
        => (inStr' = inStr /\ txLine' = txLine /\ strPos' = strPos)]_vars

\* capacity 3 is full after two characters: the third is dropped, <Enter>
\* returns 2
C1_Witness ==
  /\ pc = "gets_ret" /\ strLen = 3
  /\ rxConsumed = <<65, 32, 126, 65, 13>>
  /\ retval = 2 /\ txLine = <<65, 32>>
  /\ inStr[0] = 65 /\ inStr[1] = 32 /\ inStr[2] = 0

\* C2: for every capacity >= 1, USART_gets reads up to and including the
\* first byte 13 and no further; on return the buffer holds the reference
\* editor's text followed by 0, the returned value is its length, and the
\* bytes sent are the editor's echoes in order.
C2_GetsMatchesLineEditor ==
  strLen >= 1 =>
    /\ \A i \in 1..(Len(rxConsumed) - 1) : rxConsumed[i] # 13
    /\ pc = "gets_ret" =>
         LET ed == LineEditor(Front(rxConsumed), strLen)
         IN  /\ Last(rxConsumed) = 13
             /\ retval = Len(ed.text)
             /\ \A i \in 1..Len(ed.text) : inStr[i - 1] = ed.text[i]
             /\ inStr[retval] = 0
             /\ txLine = ed.echo

\* "A~" + delete + "A" + <Enter> yields "AA" and 2
C2_Witness ==
  /\ pc = "gets_ret" /\ strLen = 3
  /\ rxConsumed = <<65, 126, 127, 65, 13>>
  /\ retval = 2 /\ txLine = <<65, 126, 127, 65>>
  /\ inStr[0] = 65 /\ inStr[1] = 65 /\ inStr[2] = 0

\* C10: with capacity 0 no printable byte is ever stored or echoed.
C10_NothingStoredAtCapacityZero ==
  strLen = 0 =>
    /\ strPos = 0
    /\ txLine = <<>>

\* ------------------------------------------ USART_putc, USART_puts (steps)
\* Bytes passed to USART_putc; strings passed to USART_puts hold no 0.
TxBytes == {0, 72, 10}

TxStrings == SeqsUpTo(TxBytes \ {0}, MaxTx)

InitPutc ==
  /\ pc = "idle"
  /\ txLine = <<>>
  /\ TxHwIdle /\ RxHwIdle /\ PutcUnused /\ PollcUnused /\ GetsUnused
  /\ PuthUnused /\ PutiUnused /\ InitUnused

\* Hardware: the byte in TDR moves to the idle shift register; TDR is empty
\* again, so TXE is set.
HwLoadShift ==
  /\ TDR # <<>> /\ shiftReg = <<>>
  /\ shiftReg' = TDR
  /\ TDR' = <<>>
  /\ TXE' = TRUE
  /\ UNCHANGED <<pc, txLine, TC, rxHw, putcVars, pollcVars, getsVars,
                 puthVars, putiVars, initVars>>

\* Hardware: the frame in the shift register has left the Tx pin; TC is set
\* if no further byte waits in TDR.
HwFrameDone ==
  /\ shiftReg # <<>>
  /\ txLine' = Append(txLine, shiftReg[1])
  /\ shiftReg' = <<>>
  /\ TC' = (TDR = <<>>)
  /\ UNCHANGED <<pc, TXE, TDR, rxHw, putcVars, pollcVars, getsVars,
                 puthVars, putiVars, initVars>>

\* the application calls USART_putc( ch )
USART_putc_call ==
  /\ pc = "idle"
  /\ Len(requested) < MaxTx
  /\ \E ch \in TxBytes :
       /\ c' = ch
       /\ requested' = Append(requested, U8(ch))
  /\ ret' = "idle"
  /\ tdrWrites' = 0
  /\ pc' = "putc_waitTXE"
  /\ UNCHANGED <<txLine, txHw, rxHw, s, overwritten, pollcVars, getsVars,
                 puthVars, putiVars, initVars>>

\* while( !(USART_USART->ISR & USART_ISR_TXE ) ) ;
USART_putc_waitTXE ==
  /\ pc = "putc_waitTXE"
  /\ TXE
  /\ pc' = "putc_write"
  /\ UNCHANGED <<txLine, txHw, rxHw, putcVars, pollcVars, getsVars,
                 puthVars, putiVars, initVars>>

\* USART_USART->TDR = c;  on this USART a write to TDR clears TXE and TC
USART_putc_write ==
  /\ pc = "putc_write"
  /\ overwritten' = (overwritten \/ TDR # <<>>)
  /\ TDR' = <<U8(c)>>
  /\ TXE' = FALSE
  /\ TC' = FALSE
  /\ tdrWrites' = tdrWrites + 1
  /\ pc' = "putc_waitTC"
  /\ UNCHANGED <<txLine, shiftReg, rxHw, c, s, ret, requested, pollcVars,
                 getsVars, puthVars, putiVars, initVars>>

\* USART_putc without the second wait (the library before version 1.3)
USART_putc_waitTC_NoWait ==
  /\ pc = "putc_waitTC"
  /\ pc' = "putc_ret"
  /\ UNCHANGED <<txLine, txHw, rxHw, putcVars, pollcVars, getsVars,
                 puthVars, putiVars, initVars>>

\* while( !(USART_USART->ISR & USART_ISR_TC) ) ;
USART_putc_waitTC ==
  /\ pc = "putc_waitTC"
  /\ TC
  /\ pc' = "putc_ret"
  /\ UNCHANGED <<txLine, txHw, rxHw, putcVars, pollcVars, getsVars,
                 puthVars, putiVars, initVars>>

\* USART_putc returns to its caller
USART_putc_return ==
  /\ pc = "putc_ret"
  /\ pc' = ret
  /\ UNCHANGED <<txLine, txHw, rxHw, putcVars, pollcVars, getsVars,
                 puthVars, putiVars, initVars>>

\* the application calls USART_puts( str )
USART_puts_call ==
  /\ pc = "idle"
  /\ \E str \in TxStrings :
       /\ Len(requested) + Len(str) <= MaxTx
       /\ s' = str
  /\ pc' = "puts_while"
  /\ UNCHANGED <<txLine, txHw, rxHw, c, ret, requested, tdrWrites,
                 overwritten, pollcVars, getsVars, puthVars, putiVars,
                 initVars>>

\* while( *s ) USART_putc( *s++ );
USART_puts_putc ==
  /\ pc = "puts_while"
  /\ s # <<>>
  /\ c' = Head(s)
  /\ s' = Tail(s)
  /\ requested' = Append(requested, U8(Head(s)))
  /\ ret' = "puts_while"
  /\ tdrWrites' = 0
  /\ pc' = "putc_waitTXE"
  /\ UNCHANGED <<txLine, txHw, rxHw, overwritten, pollcVars, getsVars,
                 puthVars, putiVars, initVars>>

\* *s is the terminator: USART_puts returns
USART_puts_return ==
  /\ pc = "puts_while"
  /\ s = <<>>
  /\ pc' = "idle"
  /\ UNCHANGED <<txLine, txHw, rxHw, putcVars, pollcVars, getsVars,
                 puthVars, putiVars, initVars>>

NextPutc ==
  \/ HwLoadShift
  \/ HwFrameDone
  \/ USART_putc_call
  \/ USART_putc_waitTXE
  \/ USART_putc_write
  \/ USART_putc_waitTC
  \/ USART_putc_return
  \/ USART_puts_call
  \/ USART_puts_putc
  \/ USART_puts_return

SpecPutc == InitPutc /\ [][NextPutc]_vars

\* C5: USART_putc writes TDR exactly once, only after TXE was read as set,
\* and returns only after TC was read as set following that write: when it
\* returns the byte has completely left the Tx pin, and no call overwrites a
\* byte that is still waiting in TDR.
C5_PutcReturnsAfterByteSent ==
  /\ tdrWrites <= 1
  /\ ~overwritten
  /\ pc = "putc_write" => TXE /\ TDR = <<>> /\ tdrWrites = 0
  /\ pc = "putc_waitTC" => tdrWrites = 1
  /\ pc = "putc_ret" =>
       /\ tdrWrites = 1 /\ TC
       /\ TDR = <<>> /\ shiftReg = <<>>
  /\ pc \in {"putc_ret", "idle", "puts_while"} => txLine = requested

\* a second USART_putc has returned: both bytes are on the line, in order
C5_Witness ==
  /\ pc = "putc_ret" /\ ret = "puts_while"
  /\ requested = <<72, 10>> /\ txLine = <<72, 10>>
  /\ tdrWrites = 1 /\ TC /\ TXE

\* ----------------------------------------------------------- USART_pollc
\* Bytes the serial line can deliver (8 data bits).
LineBytes == 0..255

\* the value USART_pollc returns when there is no input
NoInput == 0

PollcPcs == {"pollc_test", "pollc_read", "pollc_none", "pollc_ret"}

InitPollc ==
  /\ pc = "idle"
  /\ txLine = <<>>
  /\ TxHwIdle /\ RxHwIdle /\ PutcUnused /\ PollcUnused /\ GetsUnused
  /\ PuthUnused /\ PutiUnused /\ InitUnused

\* Hardware: a received byte is placed in the empty RDR and RXNE is set.
\* (A byte that arrives while RXNE is set is lost and changes nothing.)
HwReceive ==
  /\ ~RXNE
  /\ \E b \in LineBytes : RDR' = b
  /\ RXNE' = TRUE
  /\ UNCHANGED <<pc, txLine, txHw, putcVars, pollcVars, getsVars, puthVars,
                 putiVars, initVars>>

\* the application calls USART_pollc()
USART_pollc_call ==
  /\ pc = "idle"
  /\ polls < MaxPolls
  /\ polls' = polls + 1
  /\ pollResult' = 0 /\ sawRXNE' = FALSE /\ pending' = <<>> /\ rdrReads' = 0
  /\ pc' = "pollc_test"
  /\ UNCHANGED <<txLine, txHw, rxHw, putcVars, getsVars, puthVars, putiVars,
                 initVars>>

\* if( USART_USART->ISR & USART_ISR_RXNE )
USART_pollc_test ==
  /\ pc = "pollc_test"
  /\ sawRXNE' = RXNE
  /\ pending' = IF RXNE THEN <<RDR>> ELSE <<>>
  /\ pc' = IF RXNE THEN "pollc_read" ELSE "pollc_none"
  /\ UNCHANGED <<txLine, txHw, rxHw, putcVars, pollResult, rdrReads, polls,
                 getsVars, puthVars, putiVars, initVars>>

\* return USART_USART->RDR;  the read clears RXNE
USART_pollc_read ==
  /\ pc = "pollc_read"
  /\ pollResult' = U8(RDR)
  /\ RXNE' = FALSE
  /\ rdrReads' = rdrReads + 1
  /\ pc' = "pollc_ret"
  /\ UNCHANGED <<txLine, txHw, RDR, putcVars, sawRXNE, pending, polls,
                 getsVars, puthVars, putiVars, initVars>>

\* the else branch returning the data register like the if branch
USART_pollc_none_ReadsRDR ==
  /\ pc = "pollc_none"
  /\ pollResult' = U8(RDR)
  /\ RXNE' = FALSE
  /\ rdrReads' = rdrReads + 1
  /\ pc' = "pollc_ret"
  /\ UNCHANGED <<txLine, txHw, RDR, putcVars, sawRXNE, pending, polls,
                 getsVars, puthVars, putiVars, initVars>>

\* else return 0;
USART_pollc_none ==
  /\ pc = "pollc_none"
  /\ pollResult' = NoInput
  /\ pc' = "pollc_ret"
  /\ UNCHANGED <<txLine, txHw, rxHw, putcVars, sawRXNE, pending, rdrReads,
                 polls, getsVars, puthVars, putiVars, initVars>>

\* USART_pollc returns to the application
USART_pollc_return ==
  /\ pc = "pollc_ret"
  /\ pc' = "idle"
  /\ UNCHANGED <<txLine, txHw, rxHw, putcVars, pollcVars, getsVars, puthVars,
                 putiVars, initVars>>

\* the steps of USART_pollc itself
PollcStep ==
  \/ USART_pollc_test
  \/ USART_pollc_read
  \/ USART_pollc_none
  \/ USART_pollc_return

NextPollc ==
  \/ HwReceive
  \/ USART_pollc_call
  \/ USART_pollc_test
  \/ USART_pollc_read
  \/ USART_pollc_none
  \/ USART_pollc_return

SpecPollc == InitPollc /\ [][NextPollc]_vars

\* never waits; nothing pending: returns the no-input value and does not
\* read RDR; a byte pending: returns that byte and reads RDR once
PollcContract ==
  /\ pc \in PollcPcs => ENABLED PollcStep
  /\ rdrReads <= 1
  /\ pc = "pollc_ret" /\ pending = <<>> =>
       pollResult = NoInput /\ rdrReads = 0
  /\ pc = "pollc_ret" /\ pending # <<>> =>
       pollResult = pending[1] /\ rdrReads = 1

\* C6 (as claimed): USART_pollc never waits, returns the no-input result
\* without reading data when nothing is pending, returns and consumes the
\* pending byte otherwise, and for every byte 0..255 the result for a
\* pending byte differs from the no-input result.
C6_Original ==
  /\ PollcContract
  /\ pc = "pollc_ret" /\ pending # <<>> => pollResult # NoInput

\* C6 (amended): as above, but the result for a pending byte differs from
\* the no-input result exactly when the byte is not 0; a pending byte 0 is
\* returned as 0, the no-input value.
C6_PollcNonBlocking ==
  /\ PollcContract
  /\ pc = "pollc_ret" /\ pending # <<>> =>
       (pollResult # NoInput <=> pending[1] # 0)

\* a poll with nothing pending was followed by a poll that returned byte 255
C6_Witness ==
  /\ pc = "pollc_ret" /\ polls = 2
  /\ pending = <<255>> /\ pollResult = 255 /\ rdrReads = 1

\* ------------------------------------------------------------ USART_puth
\* "Can print from 1 to 8 hex digits."
MaxPlaces == 8

\* Values passed to USART_puth, as <<high half, low half>>.
HexNumbers ==
  {U32(0), U32(9), U32(10), U32(15), U32(16), U32(171), U32(43981),
   U32(109517), <<4095, 65535>>, <<4096, 0>>, <<32768, 0>>, <<65535, 65535>>}

\* USART_putc( '.' )
Dot == 46

\* number >> ( places * 4 ).  A shift of a uint32_t by 32 bits is undefined
\* in C: the outcomes are 0 (the shifter clears the register) and number
\* (the shifter uses the count modulo 32).
OobValues(num, n) ==
  IF n * 4 < 32 THEN {U32Shr(num, n * 4)}
  ELSE {U32(0), num}

\* thisDigit = (number >> x) & 0xF
ThisDigit(num, sh) == U32Shr(num, sh)[2] % 16

\* thisDigit += 0x30 below 10, thisDigit += 0x37 otherwise
DigitChar(d) == IF d < 10 THEN U8(d + 48) ELSE U8(d + 55)

InitPuth ==
  /\ pc = "puth_entry"
  /\ txLine = <<>>
  /\ TxHwIdle /\ RxHwIdle /\ PutcUnused /\ PollcUnused /\ GetsUnused
  /\ PutiUnused /\ InitUnused
  /\ number \in HexNumbers
  /\ places \in 1..MaxPlaces
  /\ oob = U32(0) /\ x = 0

\* oob = number >> ( places * 4 );  x = (places - 1) * 4
USART_puth_oob ==
  /\ pc = "puth_entry"
  /\ oob' \in OobValues(number, places)
  /\ x' = (places - 1) * 4
  /\ pc' = "puth_for"
  /\ UNCHANGED <<txLine, txHw, rxHw, putcVars, pollcVars, getsVars, number,
                 places, putiVars, initVars>>

\* loop body with oob set: USART_putc( '.' )
USART_puth_dot ==
  /\ pc = "puth_for"
  /\ x >= 0
  /\ oob # U32(0)
  /\ txLine' = USART_putc(txLine, Dot)
  /\ x' = x - 4
  /\ UNCHANGED <<pc, txHw, rxHw, putcVars, pollcVars, getsVars, number,
                 places, oob, putiVars, initVars>>

\* loop body with oob clear: USART_putc( thisDigit )
USART_puth_digit ==
  /\ pc = "puth_for"
  /\ x >= 0
  /\ oob = U32(0)
  /\ txLine' = USART_putc(txLine, DigitChar(ThisDigit(number, x)))
  /\ x' = x - 4
  /\ UNCHANGED <<pc, txHw, rxHw, putcVars, pollcVars, getsVars, number,
                 places, oob, putiVars, initVars>>

\* x < 0: the loop ends
USART_puth_return ==
  /\ pc = "puth_for"
  /\ x < 0
  /\ pc' = "puth_ret"
  /\ UNCHANGED <<txLine, txHw, rxHw, putcVars, pollcVars, getsVars, puthVars,
                 putiVars, initVars>>

NextPuth ==
  \/ USART_puth_oob
  \/ USART_puth_dot
  \/ USART_puth_digit
  \/ USART_puth_return

SpecPuth == InitPuth /\ [][NextPuth]_vars

\* '0'..'9', 'A'..'F'
HexChars == <<48, 49, 50, 51, 52, 53, 54, 55, 56, 57, 65, 66, 67, 68, 69, 70>>

\* hexadecimal digit k (0 = least significant) of a uint32_t
Nibble(num, k) ==
  IF k >= 4 THEN (num[1] \div (16 ^ (k - 4))) % 16
  ELSE (num[2] \div (16 ^ k)) % 16

\* num has no set bit at or above bit 4 * n
FitsPlaces(num, n) ==
  \A k \in n..7 : Nibble(num, k) = 0

\* the text USART_puth is to send
HexText(num, n) ==
  IF FitsPlaces(num, n)
  THEN [i \in 1..n |-> HexChars[Nibble(num, n - i) + 1]]
  ELSE [i \in 1..n |-> Dot]

\* C3: for every places in 1..8 USART_puth sends exactly places bytes: the
\* zero-padded uppercase hexadecimal digits of number, most significant
\* first, if number has no set bit at or above bit 4*places, and a '.' for
\* every digit otherwise; places = 8 included.
C3_PuthSendsHexText ==
  pc = "puth_ret" => txLine = HexText(number, places)

\* ------------------------------------------------------------ USART_puti
\* char myString[10];
MyStringSize == 10

\* Values and bases passed to USART_puti.
PutiData ==
  {0, 1, 9, 255, 256, 511, 512, 1023, 1024, 65535, 99999999, 999999999,
   1000000000, 2147483647, -1, -9, -255, -9999999, -99999999, -100000000,
   -2147483647, -2147483647 - 1}

PutiBases == {2, 10, 16}

\* digits "0123456789abcdefghijklmnopqrstuvwxyz" of the C library's utoa
UtoaChar(d) == IF d < 10 THEN 48 + d ELSE 87 + d

RECURSIVE Utoa(_, _)
\* the digits of the uint32_t u in the given base, most significant first
Utoa(u, b) ==
  IF U32Div(u, b) = U32(0) THEN <<UtoaChar(U32Mod(u, b))>>
  ELSE Append(Utoa(U32Div(u, b), b), UtoaChar(U32Mod(u, b)))

\* itoa( value, str, base ) of the C library: a '-' and the magnitude for a
\* negative value in base 10, the value as unsigned in every other case
Itoa(value, b) ==
  IF b = 10 /\ value < 0
  THEN <<45>> \o Utoa(U32Neg(U32OfInt(value)), b)
  ELSE Utoa(U32OfInt(value), b)

\* Effect of one complete USART_puts( str ) call on an idle transmitter.
USART_puts(line, str) == line \o [i \in 1..Len(str) |-> U8(str[i])]

InitPuti ==
  /\ pc = "puti_entry"
  /\ txLine = <<>>
  /\ TxHwIdle /\ RxHwIdle /\ PutcUnused /\ PollcUnused /\ GetsUnused
  /\ PuthUnused /\ InitUnused
  /\ data \in PutiData
  /\ base \in PutiBases
  /\ myString = <<>> /\ overflow = FALSE

\* itoa( data, myString, base ); text and terminator fit myString
USART_puti_itoa ==
  /\ pc = "puti_entry"
  /\ Len(Itoa(data, base)) + 1 <= MyStringSize
  /\ myString' = Itoa(data, base)
  /\ pc' = "puti_puts"
  /\ UNCHANGED <<txLine, txHw, rxHw, putcVars, pollcVars, getsVars, puthVars,
                 data, base, overflow, initVars>>

\* itoa( data, myString, base ); itoa writes past the end of myString.  The
\* behaviour is undefined: the routine carries on with the text, or the
\* overwritten stack makes the program fault.
USART_puti_itoa_overrun ==
  /\ pc = "puti_entry"
  /\ Len(Itoa(data, base)) + 1 > MyStringSize
  /\ myString' = Itoa(data, base)
  /\ overflow' = TRUE
  /\ pc' \in {"puti_puts", "fault"}
  /\ UNCHANGED <<txLine, txHw, rxHw, putcVars, pollcVars, getsVars, puthVars,
                 data, base, initVars>>

\* USART_puts( myString );
USART_puti_puts ==
  /\ pc = "puti_puts"
  /\ txLine' = USART_puts(txLine, myString)
  /\ pc' = "puti_ret"
  /\ UNCHANGED <<txHw, rxHw, putcVars, pollcVars, getsVars, puthVars,
                 putiVars, initVars>>

NextPuti ==
  \/ USART_puti_itoa
  \/ USART_puti_itoa_overrun
  \/ USART_puti_puts

SpecPuti == InitPuti /\ [][NextPuti]_vars

\* C7: for every 32-bit value and every base in {2, 10, 16} the text that
\* USART_puti converts into myString has at most 9 characters, so text and
\* terminator stay within the 10-byte buffer.
C7_PutiTextFitsMyString ==
  pc # "puti_entry" => Len(myString) <= MyStringSize - 1 /\ ~overflow

\* ------------------------------------------------------------ USART_init
\* (uint32_t)8E6: the 8 MHz internal RC clock
ClockHz == 8000000

\* Bit positions and masks of the CMSIS device header used by USART_init.
RCC_AHBENR_GPIOAEN == Pow2(17)

RCC_AHBENR_GPIOBEN == Pow2(18)

RCC_APB2ENR_USART1EN == Pow2(14)

GPIO_MODER_MODER2_Pos == 4

GPIO_MODER_MODER3_Pos == 6

GPIO_AFRL_AFRL2_Pos == 8

GPIO_AFRL_AFRL3_Pos == 12

USART_BRR_DIV_MANTISSA_Pos == 4

USART_BRR_DIV_FRACTION_Pos == 0

USART_CR1_UE == 1

USART_CR1_RE == 4

USART_CR1_TE == 8

\* Baud rates passed to USART_init (all > 0).
Bauds ==
  {110, 123, 300, 1200, 9600, 112500, 115200, 460800, 500000, 3000000,
   8000000, 9000000}

\* GPIOA->MODER before the call: every mode of PA2 and PA3, over the port's
\* reset value with and without PA0 as an output.
PriorMODERs ==
  {m2 * Pow2(GPIO_MODER_MODER2_Pos) + m3 * Pow2(GPIO_MODER_MODER3_Pos) + rest :
     m2 \in 0..3, m3 \in 0..3, rest \in {671088640, 671088641}}

\* GPIOA->AFR[0] before the call: alternate functions 0..2 on PA2 and PA3,
\* with and without an alternate function on PA5.
PriorAFR0s ==
  {a2 * Pow2(GPIO_AFRL_AFRL2_Pos) + a3 * Pow2(GPIO_AFRL_AFRL3_Pos) + rest :
     a2 \in 0..2, a3 \in 0..2, rest \in {0, 5 * Pow2(20)}}

\* speedMant = (uint32_t)8E6 / baudrate / 16
SpeedMant(baud) == (ClockHz \div baud) \div 16

\* the fraction with the "* 16" of the subtrahend left out
SpeedFrac_NoTimes16(baud, mant) == (ClockHz - baud * mant) \div baud

\* speedFrac = ( (uint32_t)8E6 - baudrate * speedMant * 16 ) / baudrate
\* (baudrate * speedMant * 16 <= 8E6, so the uint32_t product cannot wrap)
SpeedFrac(baud, mant) == (ClockHz - baud * mant * 16) \div baud

\* the register writes with the GPIO clock enabled after the pin setup
InitSteps_ClockLate ==
  <<"MODER2", "MODER3", "AHBENR", "AFR2", "AFR3", "APB2ENR", "BRR", "CR1">>

\* the register writes of USART_init, in program order
InitSteps ==
  <<"AHBENR", "MODER2", "MODER3", "AFR2", "AFR3", "APB2ENR", "BRR", "CR1">>

\* State at the call in main(): RCC->AHBENR holds its reset value 0x14 and
\* the GPIOBEN bit main() has set; the USART registers hold their reset values.
InitInit ==
  /\ pc = "init_entry"
  /\ txLine = <<>>
  /\ TxHwIdle /\ RxHwIdle /\ PutcUnused /\ PollcUnused /\ GetsUnused
  /\ PuthUnused /\ PutiUnused
  /\ baudrate \in Bauds
  /\ speedMant = 0 /\ speedFrac = 0
  /\ AHBENR = 20 + RCC_AHBENR_GPIOBEN
  /\ APB2ENR = 0
  /\ MODER \in PriorMODERs /\ priorMODER = MODER
  /\ AFR0 \in PriorAFR0s /\ priorAFR0 = AFR0
  /\ BRR = 0 /\ CR1 = 0
  /\ step = 1 /\ writeLog = <<>>

\* speedMant = ...; speedFrac = ...; USART_USART = thisUSART;
USART_init_calc ==
  /\ pc = "init_entry"
  /\ speedMant' = SpeedMant(baudrate)
  /\ speedFrac' = SpeedFrac(baudrate, SpeedMant(baudrate))
  /\ step' = 1
  /\ writeLog' = <<>>
  /\ pc' = "init_write"
  /\ UNCHANGED <<txLine, txHw, rxHw, putcVars, pollcVars, getsVars, puthVars,
                 putiVars, baudrate, AHBENR, APB2ENR, MODER, AFR0, BRR, CR1,
                 priorMODER, priorAFR0>>

\* the next register write of the per-port setup
USART_init_write ==
  /\ pc = "init_write"
  /\ step <= Len(InitSteps)
  /\ LET r == InitSteps[step]
     IN  /\ AHBENR' = IF r = "AHBENR"
                      THEN BitOr(AHBENR, RCC_AHBENR_GPIOAEN) ELSE AHBENR
         /\ MODER' =
              IF r = "MODER2"
              THEN BitOr(MODER, 2 * Pow2(GPIO_MODER_MODER2_Pos))
              ELSE IF r = "MODER3"
              THEN BitOr(MODER, 2 * Pow2(GPIO_MODER_MODER3_Pos))
              ELSE MODER
         /\ AFR0' =
              IF r = "AFR2"
              THEN BitOr(AFR0, 1 * Pow2(GPIO_AFRL_AFRL2_Pos))
              ELSE IF r = "AFR3"
              THEN BitOr(AFR0, 1 * Pow2(GPIO_AFRL_AFRL3_Pos))
              ELSE AFR0
         /\ APB2ENR' = IF r = "APB2ENR"
                       THEN BitOr(APB2ENR, RCC_APB2ENR_USART1EN) ELSE APB2ENR
         /\ BRR' = IF r = "BRR"
                   THEN BitOr(speedMant * Pow2(USART_BRR_DIV_MANTISSA_Pos),
                              speedFrac * Pow2(USART_BRR_DIV_FRACTION_Pos))
                   ELSE BRR
         /\ CR1' = IF r = "CR1"
                   THEN BitOr(BitOr(USART_CR1_TE, USART_CR1_RE), USART_CR1_UE)
                   ELSE CR1
         /\ writeLog' = Append(writeLog, r)
  /\ step' = step + 1
  /\ UNCHANGED <<pc, txLine, txHw, rxHw, putcVars, pollcVars, getsVars,
                 puthVars, putiVars, baudrate, speedMant, speedFrac,
                 priorMODER, priorAFR0>>

\* End per-port setup
USART_init_return ==
  /\ pc = "init_write"
  /\ step > Len(InitSteps)
  /\ pc' = "init_ret"
  /\ UNCHANGED <<txLine, txHw, rxHw, putcVars, pollcVars, getsVars, puthVars,
                 putiVars, initVars>>

NextInit ==
  \/ USART_init_calc
  \/ USART_init_write
  \/ USART_init_return

SpecInit == InitInit /\ [][NextInit]_vars

\* the mantissa of the truncated divisor fits the 12-bit field of BRR
MantissaFits(baud) == (ClockHz \div baud) \div 16 < Pow2(12)

\* 8,000,000 / baud rounded to the nearest integer
RoundedDivisor(baud) == (2 * ClockHz + baud) \div (2 * baud)

\* C4 (as claimed): the value written to BRR is (mantissa << 4) | fraction
\* of divisor = 8,000,000 / baud rounded to the nearest integer.
C4_Original ==
  pc = "init_ret" /\ MantissaFits(baudrate) =>
    LET divisor == RoundedDivisor(baudrate)
        mantissa == divisor \div 16
        fraction == divisor % 16
    IN  /\ fraction \in 0..15
        /\ BRR = mantissa * 16 + fraction

\* C4 (amended): the value written to BRR is (mantissa << 4) | fraction of
\* divisor = 8,000,000 / baud truncated to an integer, mantissa =
\* divisor / 16 and fraction = divisor % 16, so fraction is in 0..15.
C4_BrrIsTruncatedDivisor ==
  pc = "init_ret" /\ MantissaFits(baudrate) =>
    LET divisor == ClockHz \div baudrate
        mantissa == divisor \div 16
        fraction == divisor % 16
    IN  /\ speedMant = mantissa
        /\ speedFrac = fraction /\ fraction \in 0..15
        /\ BRR = mantissa * 16 + fraction

\* 9600 baud: mantissa 52, fraction 1
C4_Witness ==
  /\ pc = "init_ret" /\ baudrate = 9600
  /\ speedMant = 52 /\ speedFrac = 1 /\ BRR = 833

\* every write of register b in the log has a write of register a before it
WrittenBefore(a, b) ==
  \A j \in 1..Len(writeLog) :
    writeLog[j] = b => \E i \in 1..(j - 1) : writeLog[i] = a

GpioWrites == {"MODER2", "MODER3", "AFR2", "AFR3"}

\* C8: during USART_init the GPIO port A clock is enabled before any write
\* to the port's mode or alternate-function registers, the mode writes
\* precede the alternate-function writes, the USART clock is enabled before
\* any write to BRR or CR1, and BRR is written before CR1 enables
\* transmitter, receiver and USART.
C8_InitWriteOrder ==
  /\ \A g \in GpioWrites : WrittenBefore("AHBENR", g)
  /\ (\E j \in 1..Len(writeLog) : writeLog[j] \in GpioWrites) =>
       (AHBENR \div RCC_AHBENR_GPIOAEN) % 2 = 1
  /\ \A m \in {"MODER2", "MODER3"} : \A a \in {"AFR2", "AFR3"} :
       WrittenBefore(m, a)
  /\ WrittenBefore("APB2ENR", "BRR") /\ WrittenBefore("APB2ENR", "CR1")
  /\ (\E j \in 1..Len(writeLog) : writeLog[j] \in {"BRR", "CR1"}) =>
       (APB2ENR \div RCC_APB2ENR_USART1EN) % 2 = 1
  /\ WrittenBefore("BRR", "CR1")
  /\ pc = "init_ret" =>
       /\ {writeLog[j] : j \in 1..Len(writeLog)} =
            GpioWrites \cup {"AHBENR", "APB2ENR", "BRR", "CR1"}
       /\ CR1 = USART_CR1_TE + USART_CR1_RE + USART_CR1_UE

\* all eight writes done, the last one enabling Tx, Rx and the USART
C8_Witness ==
  /\ pc = "init_ret" /\ Len(writeLog) = 8
  /\ writeLog[1] = "AHBENR" /\ writeLog[8] = "CR1" /\ CR1 = 13

\* register value r without the fields of PA2 and PA3 (width n, at p2, p3)
OtherPins(r, p2, p3, n) == WithoutField(WithoutField(r, p2, n), p3, n)

\* C9: for every prior content of MODER and AFR[0], after USART_init the
\* mode fields of PA2 and PA3 are 0b10, their alternate-function fields are
\* 1, and the fields of all other pins are unchanged.
C9_PinsSetForAnyPriorContent ==
  pc = "init_ret" =>
    /\ Field(MODER, GPIO_MODER_MODER2_Pos, 2) = 2
    /\ Field(MODER, GPIO_MODER_MODER3_Pos, 2) = 2
    /\ Field(AFR0, GPIO_AFRL_AFRL2_Pos, 4) = 1
    /\ Field(AFR0, GPIO_AFRL_AFRL3_Pos, 4) = 1
    /\ OtherPins(MODER, GPIO_MODER_MODER2_Pos, GPIO_MODER_MODER3_Pos, 2)
         = OtherPins(priorMODER, GPIO_MODER_MODER2_Pos,
                     GPIO_MODER_MODER3_Pos, 2)
    /\ OtherPins(AFR0, GPIO_AFRL_AFRL2_Pos, GPIO_AFRL_AFRL3_Pos, 4)
         = OtherPins(priorAFR0, GPIO_AFRL_AFRL2_Pos, GPIO_AFRL_AFRL3_Pos, 4)

=============================================================================
